---------------------------- MODULE Spec2Model ----------------------------
(***************************************************************************)
(* A model of the DogStatsd client of statsd_tornado.py: the encoder of    *)
(* metrics and events, the two send strategies (immediate, buffered) and   *)
(* the scoped buffering mode.                                              *)
(*                                                                         *)
(* Text is a sequence of one-character strings.  A value handed to str()   *)
(* is an item: a text, an int, a float given in hundredths, or a float     *)
(* below 1 given by the digits of its repr.                                *)
(* Four specifications: Spec (calls in any order on one client), SpecEnc   *)
(* (one call on a client, over the inputs of the encoder), SpecHist (runs  *)
(* of a few calls with the record of every call kept) and SpecConc (two    *)
(* callers of a buffered client, statement by statement).                  *)
(* The metric names, tags and values of the model are ASCII, so that       *)
(* packet.encode('utf-8') is defined on every metric packet; event titles  *)
(* may hold "U+00E9", the character e-acute, two bytes long in UTF-8.      *)
(***************************************************************************)
EXTENDS Integers, Sequences, FiniteSets, TLC

VARIABLES
    send,             \* self._send: "_send_to_server" or "_send_to_buffer"
    buffer,           \* self.buffer: the packets pending, in call order
    has_buffer,       \* whether the attribute self.buffer exists yet
    max_buffer_size,  \* self.max_buffer_size
    wrote,            \* the self.stream.write calls of the last call, in order
    logged,           \* the log.exception calls of the last call
    raised,           \* the exception the last call let reach its caller
    peak,             \* the largest len(self.buffer) seen during the last call
    last,             \* the last call: its name and arguments
    scope,            \* position of the caller in a `with statsd:` block
    hist,             \* the record of the calls so far, where one is kept
    pc                \* the statement each concurrent caller is at

vars == <<send, buffer, has_buffer, max_buffer_size, wrote, logged, raised,
          peak, last, scope, hist, pc>>

-----------------------------------------------------------------------------
(* Bounds of the model *)

MaxBuf == 3
(* the calls of a recorded run *)
MaxCalls == 5
(* the packets two concurrent callers send *)
MaxPackets == 3

-----------------------------------------------------------------------------
(* Text and str() *)

NL == "\n"
BS == "\\"

Digits == <<"0", "1", "2", "3", "4", "5", "6", "7", "8", "9">>

RECURSIVE NatStr(_)
NatStr(n) ==
    IF n < 10 THEN <<Digits[n + 1]>>
    ELSE NatStr(n \div 10) \o <<Digits[(n % 10) + 1]>>

IntStr(n) == IF n < 0 THEN <<"-">> \o NatStr(-n) ELSE NatStr(n)

FloatStr(h) ==
    LET a  == IF h < 0 THEN -h ELSE h
        d1 == (a % 100) \div 10
        d2 == a % 10
    IN  (IF h < 0 THEN <<"-">> ELSE <<>>)
        \o NatStr(a \div 100) \o <<".">> \o <<Digits[d1 + 1]>>
        \o (IF d2 = 0 THEN <<>> ELSE <<Digits[d2 + 1]>>)

T(s) == [t |-> "str", v |-> s]
I(n) == [t |-> "int", v |-> n]
F(h) == [t |-> "float", v |-> h]
(* a float 0.d1d2...dk of more digits than hundredths: d are the digits of  *)
(* its repr, d1 and dk not 0; v is its sign                                 *)
Long(d) == [t |-> "long", v |-> 1, d |-> d]

DigitVal(c) == CHOOSE n \in 0 .. 9 : Digits[n + 1] = c

RECURSIVE StripZeros(_)
StripZeros(d) ==
    IF d # <<>> /\ d[Len(d)] = "0" THEN StripZeros(SubSeq(d, 1, Len(d) - 1)) ELSE d

RECURSIVE RoundUp(_)
RoundUp(d) ==
    IF d = <<>> THEN <<>>
    ELSE IF d[Len(d)] = "9" THEN RoundUp(SubSeq(d, 1, Len(d) - 1)) \o <<"0">>
    ELSE SubSeq(d, 1, Len(d) - 1) \o <<Digits[DigitVal(d[Len(d)]) + 2]>>

(* str() of a float is '%.12g' in Python 2: 12 significant digits *)
StrPrecision == 12

LongStr(x) ==
    LET kept == SubSeq(x.d, 1, StrPrecision)
        frac == IF Len(x.d) <= StrPrecision THEN x.d
                ELSE IF DigitVal(x.d[StrPrecision + 1]) < 5 THEN StripZeros(kept)
                ELSE StripZeros(RoundUp(kept))
    IN  (IF x.v < 0 THEN <<"-">> ELSE <<>>) \o <<"0", ".">> \o frac

(* floats written without their fraction *)
str_int(x) ==
    CASE x.t = "str"   -> x.v
      [] x.t = "int"   -> IntStr(x.v)
      [] x.t = "float" -> IntStr(x.v \div 100)
      [] x.t = "long"  -> <<"0">>

str(x) ==
    CASE x.t = "str"   -> x.v
      [] x.t = "int"   -> IntStr(x.v)
      [] x.t = "float" -> FloatStr(x.v)
      [] x.t = "long"  -> LongStr(x)

Hundredths(x) == IF x.t = "int" THEN 100 * x.v ELSE x.v

IsOne(x) == x.t # "str" /\ Hundredths(x) = 100

Neg(x) == [x EXCEPT !.v = -x.v]

RECURSIVE join(_, _)
join(sep, list) ==
    IF list = <<>> THEN <<>>
    ELSE IF Len(list) = 1 THEN list[1]
    ELSE list[1] \o sep \o join(sep, Tail(list))

RECURSIVE imap_str(_)
imap_str(payload) ==
    IF payload = <<>> THEN <<>>
    ELSE <<str(payload[1])>> \o imap_str(Tail(payload))


(* string.encode('utf-8'): one byte per ASCII character, two for U+00E9 *)
Utf8Char(ch) == IF ch = "U+00E9" THEN <<"0xC3", "0xA9">> ELSE <<ch>>

RECURSIVE encode(_)
encode(string) ==
    IF string = <<>> THEN <<>>
    ELSE IF Len(string) = 1 THEN Utf8Char(string[1])
    ELSE LET h == Len(string) \div 2
         IN  encode(SubSeq(string, 1, h))
             \o encode(SubSeq(string, h + 1, Len(string)))

-----------------------------------------------------------------------------
(* The client during a call: the fields of self and what the call did so far *)

NoError == "None"

Self ==
    [send |-> send, buffer |-> buffer, has_buffer |-> has_buffer,
     max_buffer_size |-> max_buffer_size,
     wrote |-> <<>>, logged |-> 0, exc |-> NoError,
     peak |-> Len(buffer)]

Raise(self, e) == [self EXCEPT !.exc = e]

(* self.stream.write(data), io being what the transport does with it *)
stream_write(self, data, io) ==
    LET w == [data |-> data, ok |-> io = "ok", via |-> self.send]
    IN  IF io = "ok"
        THEN [self EXCEPT !.wrote = Append(@, w)]
        ELSE [self EXCEPT !.wrote = Append(@, w), !.exc = io]

log_exception(self) == [self EXCEPT !.logged = @ + 1, !.exc = NoError]

(* the except clause left out *)
_send_to_server_nocatch(self, packet, io) ==
    stream_write(self, encode(packet), io)

_send_to_server(self, packet, io) ==
    LET s1 == stream_write(self, encode(packet), io)
    IN  IF s1.exc = "socket.error" THEN log_exception(s1) ELSE s1

(* nothing is written when nothing is pending *)
_flush_buffer_skip_empty(self, io) ==
    IF ~self.has_buffer THEN Raise(self, "AttributeError")
    ELSE IF self.buffer = <<>> THEN self
    ELSE LET s1 == _send_to_server(self, join(<<NL>>, self.buffer), io)
         IN  IF s1.exc # NoError THEN s1
             ELSE [s1 EXCEPT !.buffer = <<>>]

(* a batch whose write failed is kept for the next flush *)
_flush_buffer_retry(self, io) ==
    IF ~self.has_buffer THEN Raise(self, "AttributeError")
    ELSE LET s1 == _send_to_server(self, join(<<NL>>, self.buffer), io)
         IN  IF s1.exc # NoError \/ s1.logged > self.logged THEN s1
             ELSE [s1 EXCEPT !.buffer = <<>>]

(* the buffer is not reset after the write *)
_flush_buffer_keep(self, io) ==
    IF ~self.has_buffer THEN Raise(self, "AttributeError")
    ELSE _send_to_server(self, join(<<NL>>, self.buffer), io)

_flush_buffer(self, io) ==
    IF ~self.has_buffer THEN Raise(self, "AttributeError")
    ELSE LET s1 == _send_to_server(self, join(<<NL>>, self.buffer), io)
         IN  IF s1.exc # NoError THEN s1
             ELSE [s1 EXCEPT !.buffer = <<>>]

(* > for >= *)
_send_to_buffer_gt(self, packet, io) ==
    LET s1 == [self EXCEPT !.buffer = Append(@, packet),
                           !.peak = IF Len(self.buffer) + 1 > @
                                    THEN Len(self.buffer) + 1 ELSE @]
    IN  IF Len(s1.buffer) > s1.max_buffer_size
        THEN _flush_buffer(s1, io)
        ELSE s1

(* the size is tested before the append *)
_send_to_buffer_late(self, packet, io) ==
    LET s1 == IF Len(self.buffer) >= self.max_buffer_size
              THEN _flush_buffer(self, io)
              ELSE self
    IN  [s1 EXCEPT !.buffer = Append(@, packet),
                   !.peak = IF Len(s1.buffer) + 1 > @
                            THEN Len(s1.buffer) + 1 ELSE @]

_send_to_buffer(self, packet, io) ==
    LET s1 == [self EXCEPT !.buffer = Append(@, packet),
                           !.peak = IF Len(self.buffer) + 1 > @
                                    THEN Len(self.buffer) + 1 ELSE @]
    IN  IF Len(s1.buffer) >= s1.max_buffer_size
        THEN _flush_buffer(s1, io)
        ELSE s1

(* The statements of _send_to_buffer and _flush_buffer one by one, as two   *)
(* callers of one client interleave them: the append, the test of the size, *)
(* the join and write, the reset of the buffer.                             *)
buffer_append(self, packet) ==
    [self EXCEPT !.buffer = Append(@, packet),
                 !.peak = IF Len(self.buffer) + 1 > @
                          THEN Len(self.buffer) + 1 ELSE @]

(* > for >= *)
buffer_full_gt(self) == Len(self.buffer) > self.max_buffer_size

buffer_full(self) == Len(self.buffer) >= self.max_buffer_size

join_and_write(self, io) == _send_to_server(self, join(<<NL>>, self.buffer), io)

buffer_reset(self) == [self EXCEPT !.buffer = <<>>]

_send(self, packet, io) ==
    IF self.send = "_send_to_buffer"
    THEN _send_to_buffer(self, packet, io)
    ELSE _send_to_server(self, packet, io)

(* the pending packets are kept *)
open_buffer_keep(self, n) ==
    [self EXCEPT !.max_buffer_size = n,
                 !.has_buffer = TRUE,
                 !.peak = 0,
                 !.send = "_send_to_buffer"]

open_buffer(self, n) ==
    [self EXCEPT !.max_buffer_size = n,
                 !.buffer = <<>>,
                 !.has_buffer = TRUE,
                 !.peak = 0,
                 !.send = "_send_to_buffer"]

(* the flush left out *)
close_buffer_noflush(self, io) ==
    [self EXCEPT !.send = "_send_to_server"]

(* the flush first, the switch of the strategy after it *)
close_buffer_flush_first(self, io) ==
    LET s1 == _flush_buffer(self, io)
    IN  IF s1.exc # NoError THEN s1 ELSE [s1 EXCEPT !.send = "_send_to_server"]

close_buffer(self, io) ==
    _flush_buffer([self EXCEPT !.send = "_send_to_server"], io)

__enter__(self) == open_buffer(self, self.max_buffer_size)

__exit__(self, io) == close_buffer(self, io)

(* >= for > in the sampling test *)
_report_ge(self, metric, metric_type, value, tags, sample_rate, u, io) ==
    IF ~IsOne(sample_rate) /\ u >= Hundredths(sample_rate) THEN self
    ELSE LET p0 == <<T(metric), T(<<":">>), value, T(<<"|">>), T(metric_type)>>
             p1 == IF ~IsOne(sample_rate)
                   THEN p0 \o <<T(<<"|", "@">>), sample_rate>>
                   ELSE p0
             p2 == IF tags # <<>>
                   THEN p1 \o <<T(<<"|", "#">>), T(join(<<",">>, tags))>>
                   ELSE p1
             encoded == join(<<>>, imap_str(p2))
         IN  _send(self, encoded, io)

(* the sample rate written only when below 1 *)
_report_lt(self, metric, metric_type, value, tags, sample_rate, u, io) ==
    IF ~IsOne(sample_rate) /\ u > Hundredths(sample_rate) THEN self
    ELSE LET p0 == <<T(metric), T(<<":">>), value, T(<<"|">>), T(metric_type)>>
             p1 == IF Hundredths(sample_rate) < 100
                   THEN p0 \o <<T(<<"|", "@">>), sample_rate>>
                   ELSE p0
             p2 == IF tags # <<>>
                   THEN p1 \o <<T(<<"|", "#">>), T(join(<<",">>, tags))>>
                   ELSE p1
             encoded == join(<<>>, imap_str(p2))
         IN  _send(self, encoded, io)

(* u is the value random() returns, in hundredths *)
_report(self, metric, metric_type, value, tags, sample_rate, u, io) ==
    IF ~IsOne(sample_rate) /\ u > Hundredths(sample_rate) THEN self
    ELSE LET p0 == <<T(metric), T(<<":">>), value, T(<<"|">>), T(metric_type)>>
             p1 == IF ~IsOne(sample_rate)
                   THEN p0 \o <<T(<<"|", "@">>), sample_rate>>
                   ELSE p0
             p2 == IF tags # <<>>
                   THEN p1 \o <<T(<<"|", "#">>), T(join(<<",">>, tags))>>
                   ELSE p1
             encoded == join(<<>>, imap_str(p2))
         IN  _send(self, encoded, io)

gauge(self, metric, value, tags, sample_rate, u, io) ==
    _report(self, metric, <<"g">>, value, tags, sample_rate, u, io)

increment(self, metric, value, tags, sample_rate, u, io) ==
    _report(self, metric, <<"c">>, value, tags, sample_rate, u, io)

(* the value not negated *)
decrement_plain(self, metric, value, tags, sample_rate, u, io) ==
    _report(self, metric, <<"c">>, value, tags, sample_rate, u, io)

decrement(self, metric, value, tags, sample_rate, u, io) ==
    _report(self, metric, <<"c">>, Neg(value), tags, sample_rate, u, io)

histogram(self, metric, value, tags, sample_rate, u, io) ==
    _report(self, metric, <<"h">>, value, tags, sample_rate, u, io)

timing(self, metric, value, tags, sample_rate, u, io) ==
    _report(self, metric, <<"m", "s">>, value, tags, sample_rate, u, io)

(* timed: the wrapper calls func, which returns (func_exc = NoError) or     *)
(* raises func_exc; the timing call follows the call of func, outside any   *)
(* try, so an exception of func leaves the wrapper before it.  elapsed is   *)
(* time() - start, a float.                                                 *)
timed(self, metric, tags, sample_rate, func_exc, elapsed, u, io) ==
    IF func_exc # NoError THEN Raise(self, func_exc)
    ELSE timing(self, metric, elapsed, tags, sample_rate, u, io)

set(self, metric, value, tags, sample_rate, u, io) ==
    _report(self, metric, <<"s">>, value, tags, sample_rate, u, io)

(* string.replace('\n', '\\n') *)
RECURSIVE _escape_event_content(_)
_escape_event_content(string) ==
    IF string = <<>> THEN <<>>
    ELSE IF Len(string) = 1
         THEN (IF string[1] = NL THEN <<BS, "n">> ELSE string)
    ELSE LET h == Len(string) \div 2
         IN  _escape_event_content(SubSeq(string, 1, h))
             \o _escape_event_content(SubSeq(string, h + 1, Len(string)))

EventLimit == 8 * 1024

(* hostname and aggregation key appended in the other order *)
event_string_swapped(e) ==
    LET title == _escape_event_content(e.title)
        text == _escape_event_content(e.text)
        s0 == <<"_", "e", "{">> \o NatStr(Len(title)) \o <<",">>
              \o NatStr(Len(text)) \o <<"}", ":">> \o title \o <<"|">> \o text
        s1 == IF e.date_happened # 0
              THEN s0 \o <<"|", "d", ":">> \o IntStr(e.date_happened) ELSE s0
        s2 == IF e.aggregation_key # <<>>
              THEN s1 \o <<"|", "k", ":">> \o e.aggregation_key ELSE s1
        s3 == IF e.hostname # <<>>
              THEN s2 \o <<"|", "h", ":">> \o e.hostname ELSE s2
        s4 == IF e.priority # <<>>
              THEN s3 \o <<"|", "p", ":">> \o e.priority ELSE s3
        s5 == IF e.source_type_name # <<>>
              THEN s4 \o <<"|", "s", ":">> \o e.source_type_name ELSE s4
        s6 == IF e.alert_type # <<>>
              THEN s5 \o <<"|", "t", ":">> \o e.alert_type ELSE s5
    IN  IF e.tags # <<>> THEN s6 \o <<"|", "#">> \o join(<<",">>, e.tags) ELSE s6

(* the lengths of the header taken before the escaping *)
event_string_rawlen(e) ==
    LET title == _escape_event_content(e.title)
        text == _escape_event_content(e.text)
        s0 == <<"_", "e", "{">> \o NatStr(Len(e.title)) \o <<",">>
              \o NatStr(Len(e.text)) \o <<"}", ":">> \o title \o <<"|">> \o text
        s1 == IF e.date_happened # 0
              THEN s0 \o <<"|", "d", ":">> \o IntStr(e.date_happened) ELSE s0
        s2 == IF e.hostname # <<>>
              THEN s1 \o <<"|", "h", ":">> \o e.hostname ELSE s1
        s3 == IF e.aggregation_key # <<>>
              THEN s2 \o <<"|", "k", ":">> \o e.aggregation_key ELSE s2
        s4 == IF e.priority # <<>>
              THEN s3 \o <<"|", "p", ":">> \o e.priority ELSE s3
        s5 == IF e.source_type_name # <<>>
              THEN s4 \o <<"|", "s", ":">> \o e.source_type_name ELSE s4
        s6 == IF e.alert_type # <<>>
              THEN s5 \o <<"|", "t", ":">> \o e.alert_type ELSE s5
    IN  IF e.tags # <<>> THEN s6 \o <<"|", "#">> \o join(<<",">>, e.tags) ELSE s6

(* An absent (None) or empty optional argument is <<>>, an absent or zero    *)
(* date_happened is 0: `if x:` does not tell them apart.                     *)
event_string(e) ==
    LET title == _escape_event_content(e.title)
        text == _escape_event_content(e.text)
        s0 == <<"_", "e", "{">> \o NatStr(Len(title)) \o <<",">>
              \o NatStr(Len(text)) \o <<"}", ":">> \o title \o <<"|">> \o text
        s1 == IF e.date_happened # 0
              THEN s0 \o <<"|", "d", ":">> \o IntStr(e.date_happened) ELSE s0
        s2 == IF e.hostname # <<>>
              THEN s1 \o <<"|", "h", ":">> \o e.hostname ELSE s1
        s3 == IF e.aggregation_key # <<>>
              THEN s2 \o <<"|", "k", ":">> \o e.aggregation_key ELSE s2
        s4 == IF e.priority # <<>>
              THEN s3 \o <<"|", "p", ":">> \o e.priority ELSE s3
        s5 == IF e.source_type_name # <<>>
              THEN s4 \o <<"|", "s", ":">> \o e.source_type_name ELSE s4
        s6 == IF e.alert_type # <<>>
              THEN s5 \o <<"|", "t", ":">> \o e.alert_type ELSE s5
    IN  IF e.tags # <<>> THEN s6 \o <<"|", "#">> \o join(<<",">>, e.tags) ELSE s6

(* the event handed to the active strategy *)
event_via_send(self, e, io) ==
    LET string == event_string(e)
    IN  IF Len(string) > EventLimit THEN Raise(self, "Exception")
        ELSE _send(self, string, io)

event(self, e, io) ==
    LET string == event_string(e)
    IN  IF Len(string) > EventLimit THEN Raise(self, "Exception")
        ELSE LET s1 == stream_write(self, encode(string), io)
             IN  IF s1.exc # NoError THEN log_exception(s1) ELSE s1

(* __exit__ returning a true value *)
with_exit_suppress(self, body_exc, io) == __exit__(self, io)

(* `with statsd:` left with the exception body_exc pending (NoError on the   *)
(* normal path): __exit__ runs and returns None, so body_exc is raised again *)
with_exit(self, body_exc, io) ==
    LET s1 == __exit__(self, io)
    IN  IF s1.exc # NoError THEN s1 ELSE [s1 EXCEPT !.exc = body_exc]

-----------------------------------------------------------------------------
(* Inputs of the calls *)

IO == {"ok", "socket.error"}

BufferSizes == 0 .. MaxBuf

Names == {<<"m">>}
Values == {I(1)}
TagSets == {<<>>}
(* a call at rate 0.5 draws 0.75 here and is dropped; sampled calls that    *)
(* are sent are among the single calls of SpecEnc                           *)
SampleRates == {I(1), F(50)}
Draws == {75}

NoFields ==
    [alert_type |-> <<>>, aggregation_key |-> <<>>, source_type_name |-> <<>>,
     date_happened |-> 0, priority |-> <<>>, tags |-> <<>>, hostname |-> <<>>]

Ev(title, text, f) ==
    [title |-> title, text |-> text, alert_type |-> f.alert_type,
     aggregation_key |-> f.aggregation_key,
     source_type_name |-> f.source_type_name,
     date_happened |-> f.date_happened, priority |-> f.priority,
     tags |-> f.tags, hostname |-> f.hostname]

Events == {Ev(<<"T">>, <<"a", NL, "b">>, NoFields)}

-----------------------------------------------------------------------------
(* The calls *)

(* No record is kept, and no caller is inside a call *)
NoHist == [on |-> FALSE, log |-> <<>>, overlap |-> FALSE]
Callers == {1, 2}
AllIdle == [c \in Callers |-> "idle"]

(* the record of a call: its name and arguments, the buffer it found, what *)
(* it wrote and what it raised                                             *)
Recorded(r, op, args) ==
    [hist EXCEPT !.log = Append(@, [op |-> op, args |-> args, before |-> buffer,
                                    wrote |-> r.wrote, exc |-> r.exc])]

Return(r, op, args, sc) ==
    /\ send' = r.send
    /\ buffer' = r.buffer
    /\ has_buffer' = r.has_buffer
    /\ max_buffer_size' = r.max_buffer_size
    /\ wrote' = r.wrote
    /\ logged' = r.logged
    /\ raised' = r.exc
    /\ peak' = r.peak
    /\ last' = [op |-> op, args |-> args]
    /\ scope' = sc
    /\ hist' = IF hist.on THEN Recorded(r, op, args) ELSE hist
    /\ pc' = pc

MetricArgs(m, v, tg, r, u) ==
    [metric |-> m, value |-> v, tags |-> tg, sample_rate |-> r, u |-> u]

Gauge(N, V, TG, R, U) ==
    \E m \in N, v \in V, tg \in TG, r \in R, u \in U, io \in IO :
        Return(gauge(Self, m, v, tg, r, u, io), "gauge",
               MetricArgs(m, v, tg, r, u), scope)

Increment(N, V, TG, R, U) ==
    \E m \in N, v \in V, tg \in TG, r \in R, u \in U, io \in IO :
        Return(increment(Self, m, v, tg, r, u, io), "increment",
               MetricArgs(m, v, tg, r, u), scope)

Decrement(N, V, TG, R, U) ==
    \E m \in N, v \in V, tg \in TG, r \in R, u \in U, io \in IO :
        Return(decrement(Self, m, v, tg, r, u, io), "decrement",
               MetricArgs(m, v, tg, r, u), scope)

Histogram(N, V, TG, R, U) ==
    \E m \in N, v \in V, tg \in TG, r \in R, u \in U, io \in IO :
        Return(histogram(Self, m, v, tg, r, u, io), "histogram",
               MetricArgs(m, v, tg, r, u), scope)

Timing(N, V, TG, R, U) ==
    \E m \in N, v \in V, tg \in TG, r \in R, u \in U, io \in IO :
        Return(timing(Self, m, v, tg, r, u, io), "timing",
               MetricArgs(m, v, tg, r, u), scope)

(* the outcomes of the wrapped function and the elapsed times *)
FuncOutcomes == {NoError, "ValueError"}
Elapsed == {F(25)}

Timed(N, TG, R, U) ==
    \E m \in N, tg \in TG, r \in R, u \in U, io \in IO :
        \E fx \in FuncOutcomes, d \in Elapsed :
            Return(timed(Self, m, tg, r, fx, d, u, io), "timed",
                   [metric |-> m, value |-> d, tags |-> tg, sample_rate |-> r,
                    u |-> u, func_exc |-> fx], scope)

Set(N, V, TG, R, U) ==
    \E m \in N, v \in V, tg \in TG, r \in R, u \in U, io \in IO :
        Return(set(Self, m, v, tg, r, u, io), "set",
               MetricArgs(m, v, tg, r, u), scope)

Event(E) ==
    \E e \in E, io \in IO :
        Return(event(Self, e, io), "event", e, scope)

OpenBuffer ==
    \E n \in BufferSizes :
        Return(open_buffer(Self, n), "open_buffer", [max_buffer_size |-> n], scope)

CloseBuffer ==
    \E io \in IO :
        Return(close_buffer(Self, io), "close_buffer", <<>>, scope)

WithEnter ==
    /\ scope = "outside"
    /\ Return(__enter__(Self), "__enter__", <<>>, "inside")

WithExit ==
    /\ scope = "inside"
    /\ \E io \in IO :
          Return(with_exit(Self, NoError, io), "__exit__",
                 [body_exc |-> NoError], "outside")

WithRaise ==
    /\ scope = "inside"
    /\ \E io \in IO :
          Return(with_exit(Self, "BodyError", io), "__exit__",
                 [body_exc |-> "BodyError"], "outside")

-----------------------------------------------------------------------------
(* The client after DogStatsd(host, port, max_buffer_size) *)

Init ==
    /\ send = "_send_to_server"
    /\ buffer = <<>>
    /\ has_buffer = FALSE
    /\ max_buffer_size \in BufferSizes
    /\ wrote = <<>>
    /\ logged = 0
    /\ raised = NoError
    /\ peak = 0
    /\ last = [op |-> "none", args |-> <<>>]
    /\ scope = "outside"
    /\ hist = NoHist
    /\ pc = AllIdle

GaugeCall == Gauge(Names, Values, TagSets, SampleRates, Draws)
IncrementCall == Increment(Names, Values, TagSets, SampleRates, Draws)
DecrementCall == Decrement(Names, Values, TagSets, SampleRates, Draws)
HistogramCall == Histogram(Names, Values, TagSets, SampleRates, Draws)
TimingCall == Timing(Names, Values, TagSets, SampleRates, Draws)
SetCall == Set(Names, Values, TagSets, SampleRates, Draws)
EventCall == Event(Events)

Next ==
    \/ GaugeCall
    \/ IncrementCall
    \/ DecrementCall
    \/ HistogramCall
    \/ TimingCall
    \/ SetCall
    \/ EventCall
    \/ OpenBuffer
    \/ CloseBuffer
    \/ WithEnter
    \/ WithExit
    \/ WithRaise

Spec == Init /\ [][Next]_vars

-----------------------------------------------------------------------------
(* Single calls on wider inputs: one call, on a client that is fresh or     *)
(* has a buffer open with one packet pending.                               *)

Rep(ch, n) == [i \in 1 .. n |-> ch]

EncNames == {<<"m">>, <<"a", ".", "b">>, <<"x", ":", "y">>}
EncValues ==
    {I(5), I(-5), I(0), F(150),
     Long(<<"1", "2", "3", "4", "5", "6", "7", "8", "9", "0", "1", "2", "3">>)}
EncTagSets ==
    {<<>>, << <<"b">> >>, << <<"b">>, <<"a">> >>, << <<"a">>, <<"b">> >>,
     << <<"a">>, <<"a">> >>}
EncRates == {I(1), F(100), F(50), F(0), F(150)}
EncDraws == {0, 49, 50, 51, 99}

(* "_e{" digits "," digits "}:" title "|" text is 12 characters longer than *)
(* a title of 1000 to 9999 characters and a text of 1 to 9 taken together   *)
(* every subset of the optional arguments *)
FieldSets ==
    [alert_type : {<<>>, <<"i", "n", "f", "o">>},
     aggregation_key : {<<>>, <<"K">>},
     source_type_name : {<<>>, <<"S">>},
     date_happened : {0, 17},
     priority : {<<>>, <<"l", "o", "w">>},
     tags : {<<>>, << <<"y">>, <<"x">> >>},
     hostname : {<<>>, <<"H">>}]

EncTexts ==
    {<<"a", NL, "b">>,
     <<"l", "i", "n", "e", "1", NL, "l", "i", "n", "e", "2">>,
     <<NL, NL>>}

EncEvents ==
    {Ev(<<"T">>, <<"a", NL, "b">>, f) : f \in FieldSets}
    \cup {Ev(<<"T", "i", "t", "l", "e">>, x, NoFields) : x \in EncTexts}
    \cup {Ev(<<"T", NL, "t">>, x, NoFields) : x \in EncTexts}
    \cup
    {Ev(<<"T">>, <<"a", NL, "b">>, NoFields),
     Ev(Rep("x", EventLimit - 21), Rep("y", 9), NoFields),
     Ev(Rep("x", EventLimit - 20), Rep("y", 9), NoFields),
     Ev(Rep("U+00E9", (EventLimit \div 2) + 4), <<"y">>, NoFields)}

Fresh(n) ==
    [send |-> "_send_to_server", buffer |-> <<>>, has_buffer |-> FALSE,
     max_buffer_size |-> n, wrote |-> <<>>, logged |-> 0, exc |-> NoError,
     peak |-> 0]

EncClients ==
    {Fresh(n) : n \in 1 .. MaxBuf}
    \cup {gauge(open_buffer(Fresh(n), n), <<"m">>, I(1), <<>>, I(1), 0, "ok") :
            n \in 2 .. MaxBuf}

InitEnc ==
    \E c \in EncClients :
        /\ send = c.send
        /\ buffer = c.buffer
        /\ has_buffer = c.has_buffer
        /\ max_buffer_size = c.max_buffer_size
        /\ wrote = <<>>
        /\ logged = 0
        /\ raised = NoError
        /\ peak = Len(c.buffer)
        /\ last = [op |-> "none", args |-> <<>>]
        /\ scope = "outside"
        /\ hist = NoHist
        /\ pc = AllIdle

First == last.op = "none"

EncGauge == First /\ Gauge(EncNames, EncValues, EncTagSets, EncRates, EncDraws)
EncIncrement == First /\ Increment(EncNames, EncValues, EncTagSets, EncRates, EncDraws)
EncDecrement == First /\ Decrement(EncNames, EncValues, EncTagSets, EncRates, EncDraws)
EncHistogram == First /\ Histogram(EncNames, EncValues, EncTagSets, EncRates, EncDraws)
EncTiming == First /\ Timing(EncNames, EncValues, EncTagSets, EncRates, EncDraws)
EncSet == First /\ Set(EncNames, EncValues, EncTagSets, EncRates, EncDraws)
EncTimed == First /\ Timed(EncNames, TagSets, EncRates, EncDraws)
EncEvent == First /\ Event(EncEvents)

NextEnc ==
    \/ EncGauge
    \/ EncIncrement
    \/ EncDecrement
    \/ EncHistogram
    \/ EncTiming
    \/ EncSet
    \/ EncTimed
    \/ EncEvent

SpecEnc == InitEnc /\ [][NextEnc]_vars

-----------------------------------------------------------------------------
(* Vocabulary of the properties *)

-----------------------------------------------------------------------------
(* Recorded runs: at most MaxCalls calls of gauge, timing, open_buffer and  *)
(* close_buffer on a new client, every metric at sample rate 1 with a value *)
(* of its own (the number of the call), every call kept in hist.log.        *)

InitHist ==
    /\ send = "_send_to_server"
    /\ buffer = <<>>
    /\ has_buffer = FALSE
    /\ max_buffer_size = MaxBuf
    /\ wrote = <<>>
    /\ logged = 0
    /\ raised = NoError
    /\ peak = 0
    /\ last = [op |-> "none", args |-> <<>>]
    /\ scope = "outside"
    /\ hist = [NoHist EXCEPT !.on = TRUE]
    /\ pc = AllIdle

MoreCalls == Len(hist.log) < MaxCalls
CallNo == {I(Len(hist.log) + 1)}

HistGauge == MoreCalls /\ Gauge(Names, CallNo, TagSets, {I(1)}, {0})
HistTiming == MoreCalls /\ Timing(Names, CallNo, TagSets, {I(1)}, {0})
HistOpen == MoreCalls /\ OpenBuffer
HistClose == MoreCalls /\ CloseBuffer

NextHist ==
    \/ HistGauge
    \/ HistTiming
    \/ HistOpen
    \/ HistClose

SpecHist == InitHist /\ [][NextHist]_vars

-----------------------------------------------------------------------------
(* Two callers of one client in the buffered strategy, each calling gauge   *)
(* at sample rate 1, their statements interleaved.  pc[c] is the statement  *)
(* caller c is about to run: "idle" (not in a call), "check" (the test of   *)
(* the size), "write" (the join and write), "reset" (the reset).  hist.log  *)
(* keeps the appends and the writes; hist.overlap is whether both callers   *)
(* have ever been inside a call at once.                                    *)

(* the packet gauge(metric, value) hands to self._send *)
Encoded(metric, value) ==
    gauge(open_buffer(Fresh(2), 2), metric, value, <<>>, I(1), 0, "ok").buffer[1]

Appended == {i \in DOMAIN hist.log : hist.log[i].op = "append"}

InitConc ==
    \E n \in 1 .. MaxBuf :
        /\ send = "_send_to_buffer"
        /\ buffer = <<>>
        /\ has_buffer = TRUE
        /\ max_buffer_size = n
        /\ wrote = <<>>
        /\ logged = 0
        /\ raised = NoError
        /\ peak = 0
        /\ last = [op |-> "open_buffer", args |-> [max_buffer_size |-> n]]
        /\ scope = "outside"
        /\ hist = [NoHist EXCEPT !.on = TRUE]
        /\ pc = AllIdle

(* caller c has run a statement, with result r, and is at statement next *)
Statement(r, c, next, stmt, entries) ==
    /\ send' = r.send
    /\ buffer' = r.buffer
    /\ has_buffer' = r.has_buffer
    /\ max_buffer_size' = r.max_buffer_size
    /\ wrote' = r.wrote
    /\ logged' = r.logged
    /\ raised' = r.exc
    /\ peak' = r.peak
    /\ last' = [op |-> stmt, args |-> [caller |-> c]]
    /\ scope' = scope
    /\ pc' = [pc EXCEPT ![c] = next]
    /\ hist' = [hist EXCEPT !.log = @ \o entries,
                            !.overlap = @ \/ \A d \in Callers : pc'[d] # "idle"]

ConcAppend ==
    \E c \in Callers :
        /\ pc[c] = "idle"
        /\ Cardinality(Appended) < MaxPackets
        /\ LET packet == Encoded(<<"m">>, I(Cardinality(Appended) + 1))
           IN  Statement(buffer_append(Self, packet), c, "check", "append",
                         <<[op |-> "append", by |-> c, packet |-> packet]>>)

ConcCheck ==
    \E c \in Callers :
        /\ pc[c] = "check"
        /\ Statement(Self, c, IF buffer_full(Self) THEN "write" ELSE "idle",
                     "check", <<>>)

ConcWrite ==
    \E c \in Callers, io \in IO :
        /\ pc[c] = "write"
        /\ LET r == join_and_write(Self, io)
           IN  Statement(r, c, "reset", "write",
                         <<[op |-> "write", by |-> c, data |-> r.wrote[1].data]>>)

ConcReset ==
    \E c \in Callers :
        /\ pc[c] = "reset"
        /\ Statement(buffer_reset(Self), c, "idle", "reset", <<>>)

NextConc ==
    \/ ConcAppend
    \/ ConcCheck
    \/ ConcWrite
    \/ ConcReset

SpecConc == InitConc /\ [][NextConc]_vars

-----------------------------------------------------------------------------
MetricOps == {"gauge", "increment", "decrement", "histogram", "timing", "set"}

Buffered == send = "_send_to_buffer"

(* the wire type and the value on the wire of a metric call *)
WireType(op) ==
    CASE op = "gauge" -> <<"g">>
      [] op \in {"increment", "decrement"} -> <<"c">>
      [] op = "histogram" -> <<"h">>
      [] op = "timing" -> <<"m", "s">>
      [] op = "set" -> <<"s">>

WireValue(op, a) ==
    IF op = "decrement" THEN [a.value EXCEPT !.v = 0 - a.value.v] ELSE a.value

(* <name>:<value>|<type>[|@<sample_rate>][|#<tag1>,<tag2>,...] *)
RECURSIVE CommaJoined(_)
CommaJoined(tags) ==
    IF Len(tags) = 1 THEN tags[1]
    ELSE CommaJoined(SubSeq(tags, 1, Len(tags) - 1)) \o <<",">> \o tags[Len(tags)]

WireFormat(op, a) ==
    a.metric \o <<":">> \o str(WireValue(op, a)) \o <<"|">> \o WireType(op)
    \o (IF Hundredths(a.sample_rate) # 100
        THEN <<"|", "@">> \o str(a.sample_rate) ELSE <<>>)
    \o (IF Len(a.tags) > 0 THEN <<"|", "#">> \o CommaJoined(a.tags) ELSE <<>>)

(* the sampling decision of the claim: dropped exactly when r # 1 and u > r *)
Sampled(a) == Hundredths(a.sample_rate) # 100
DroppedBySampling(a) == Sampled(a) /\ a.u > Hundredths(a.sample_rate)

HasNL(data) == \E i \in DOMAIN data : data[i] = NL

-----------------------------------------------------------------------------
(* C1: while buffered mode is active with max size n >= 1, the buffer never *)
(* held more than n packets during the last call, and holds fewer than n    *)
(* once the call is over.                                                   *)
C1_BufferBelowMax ==
    (Buffered /\ max_buffer_size >= 1) =>
        /\ peak <= max_buffer_size
        /\ Len(buffer) < max_buffer_size

(* a metric call that filled the buffer of size 3 and flushed it *)
C1_Witness ==
    /\ Buffered /\ max_buffer_size = 3
    /\ last.op \in MetricOps
    /\ peak = 3 /\ buffer = <<>> /\ Len(wrote) = 1

(* C2: in buffered mode with max size n >= 1, a metric call at sample rate 1 *)
(* that finds fewer than n-1 packets pending writes nothing and appends its  *)
(* packet; the one that finds n-1 pending writes exactly once, the pending   *)
(* packets and its own joined by newlines in call order, and leaves the      *)
(* buffer empty; open_buffer leaves the buffer empty and writes nothing.     *)
C2_Step ==
    /\ (last'.op = "open_buffer") => (buffer' = <<>> /\ wrote' = <<>> /\ Buffered')
    /\ (Buffered /\ max_buffer_size >= 1 /\ last'.op \in MetricOps
        /\ ~Sampled(last'.args)) =>
          LET p == WireFormat(last'.op, last'.args)
          IN  IF Len(buffer) + 1 < max_buffer_size
              THEN wrote' = <<>> /\ buffer' = Append(buffer, p)
              ELSE /\ Len(wrote') = 1
                   /\ wrote'[1].data = join(<<NL>>, Append(buffer, p))
                   /\ buffer' = <<>>

(* C2: n metric calls at sample rate 1 after open_buffer(n) give one write,
   of the n packets joined by newlines: every step is a C2_Step. *)
C2_OneFlushPerBatch == [][C2_Step]_vars

(* open_buffer(3) and three calls: one write of three packets *)
C2_Witness ==
    /\ Buffered /\ max_buffer_size = 3 /\ buffer = <<>>
    /\ last.op = "gauge"
    /\ Len(wrote) = 1
    /\ wrote[1].data = <<"m", ":", "1", "|", "h", NL,
                         "m", ":", "-", "1", "|", "c", NL,
                         "m", ":", "1", "|", "g">>

(* C3: close_buffer in buffered mode with 0 < k < max size packets pending  *)
(* writes them as one packet, joined by newlines in call order, leaves the  *)
(* buffer empty and the immediate strategy active; in the immediate         *)
(* strategy a metric call that is not dropped makes one write, of its own   *)
(* packet, and leaves the buffer and the strategy alone.                    *)
C3_Step ==
    /\ (last'.op = "close_buffer" /\ Buffered
        /\ 0 < Len(buffer) /\ Len(buffer) < max_buffer_size) =>
          /\ Len(wrote') = 1
          /\ wrote'[1].data = join(<<NL>>, buffer)
          /\ buffer' = <<>>
          /\ ~Buffered'
    /\ (last'.op \in MetricOps /\ ~Buffered /\ ~DroppedBySampling(last'.args)) =>
          /\ Len(wrote') = 1
          /\ wrote'[1].data = WireFormat(last'.op, last'.args)
          /\ buffer' = buffer
          /\ ~Buffered'

(* C3: close_buffer writes the k pending packets as one and later metric
   calls are written one by one: every step is a C3_Step. *)
C3_CloseDrains == [][C3_Step]_vars

(* two packets pending of three drained by close_buffer *)
C3_Witness ==
    /\ last.op = "close_buffer" /\ max_buffer_size = 3
    /\ ~Buffered /\ buffer = <<>>
    /\ Len(wrote) = 1
    /\ wrote[1].data = <<"m", ":", "1", "|", "g", NL, "m", ":", "1", "|", "s">>

(* C4: leaving the with block runs close_buffer on the normal path and when *)
(* the body raised: one write of the pending packets joined by newlines,    *)
(* the buffer empty, the immediate strategy active, and the body's          *)
(* exception, if any, raised to the caller.                                 *)
C4_Step ==
    (last'.op = "__exit__") =>
        /\ Len(wrote') = 1
        /\ wrote'[1].data = join(<<NL>>, buffer)
        /\ buffer' = <<>>
        /\ ~Buffered'
        /\ raised' = last'.args.body_exc

(* C4: every exit from the with block flushes, empties the buffer, restores
   the immediate strategy and keeps the error: every step is a C4_Step. *)
C4_ScopeAlwaysCloses == [][C4_Step]_vars

(* the body raised with two packets pending *)
C4_Witness ==
    /\ last.op = "__exit__" /\ last.args.body_exc = "BodyError"
    /\ raised = "BodyError"
    /\ scope = "outside" /\ ~Buffered /\ buffer = <<>>
    /\ Len(wrote) = 1 /\ HasNL(wrote[1].data)

(* C5: a metric call whose stream write fails, in the immediate strategy or *)
(* as a flush of the buffer, logs the failure and returns normally.         *)
C5_SendFailureSwallowed ==
    (last.op \in MetricOps /\ \E i \in DOMAIN wrote : ~wrote[i].ok) =>
        /\ raised = NoError
        /\ logged = 1

(* the flush of a full buffer failed *)
C5_Witness ==
    /\ last.op \in MetricOps
    /\ Len(wrote) = 1 /\ ~wrote[1].ok /\ wrote[1].via = "_send_to_buffer"
    /\ HasNL(wrote[1].data)
    /\ raised = NoError /\ logged = 1

(* C6: event() writes the event directly, in either strategy, and leaves    *)
(* the buffer, the max size and the strategy unchanged; a failed write is   *)
(* logged and not raised.                                                   *)
C6_Step ==
    (last'.op = "event" /\ raised' # "Exception") =>
        /\ Len(wrote') = 1
        /\ wrote'[1].data = encode(event_string(last'.args))
        /\ buffer' = buffer /\ has_buffer' = has_buffer
        /\ max_buffer_size' = max_buffer_size
        /\ send' = send
        /\ raised' = NoError
        /\ logged' = (IF wrote'[1].ok THEN 0 ELSE 1)

(* C6: an event is written at once and touches neither buffer nor
   strategy: every step is a C6_Step. *)
C6_EventBypassesBuffer == [][C6_Step]_vars

(* an event written while two metrics wait in the buffer *)
C6_Witness ==
    /\ last.op = "event"
    /\ Buffered /\ Len(buffer) = 2
    /\ Len(wrote) = 1 /\ wrote[1].data[1] = "_"

(* C7: an event whose payload is longer than 8192 bytes in UTF-8 raises and *)
(* is not written; one of at most 8192 bytes is written.                    *)
C7_ByteLimit ==
    (last.op = "event") =>
        LET e == last.args
            bytes == encode(event_string(e))
        IN  IF Len(bytes) > 8192
            THEN raised = "Exception" /\ wrote = <<>>
            ELSE raised = NoError /\ Len(wrote) = 1 /\ wrote[1].data = bytes

(* C8: a metric call at sample rate r with draw u is dropped exactly when   *)
(* r # 1 and u > r; a dropped call writes nothing, changes neither buffer   *)
(* nor strategy and raises nothing; any other call hands its packet to the  *)
(* active strategy.                                                         *)
C8_Step ==
    (last'.op \in MetricOps) =>
        LET a == last'.args
            p == WireFormat(last'.op, a)
        IN  IF DroppedBySampling(a)
            THEN /\ wrote' = <<>> /\ logged' = 0 /\ raised' = NoError
                 /\ buffer' = buffer /\ has_buffer' = has_buffer
                 /\ send' = send /\ max_buffer_size' = max_buffer_size
            ELSE IF Buffered
                 THEN \/ buffer' = Append(buffer, p) /\ wrote' = <<>>
                      \/ /\ buffer' = <<>> /\ Len(wrote') = 1
                         /\ wrote'[1].data = join(<<NL>>, Append(buffer, p))
                 ELSE Len(wrote') = 1 /\ wrote'[1].data = p

(* C8: a metric call is dropped exactly when r # 1 and u > r, and a dropped
   call does nothing: every step is a C8_Step. *)
C8_Sampling == [][C8_Step]_vars

(* a call dropped while a packet waits in the buffer *)
C8_Witness ==
    /\ last.op \in MetricOps
    /\ last.args.sample_rate = F(50) /\ last.args.u = 51
    /\ Buffered /\ Len(buffer) = 1 /\ wrote = <<>>

HasPair(data, c1, c2) ==
    \E i \in 1 .. (Len(data) - 1) : data[i] = c1 /\ data[i + 1] = c2

(* C9: the packet of a metric call is <name>:<value>|<type>, then           *)
(* |@<sample_rate> exactly when the rate is not 1, then |#<tags> exactly    *)
(* when tags are given, the tags joined by commas in the caller's order.    *)
C9_MetricFormat ==
    (last.op \in MetricOps /\ ~DroppedBySampling(last.args) /\ ~Buffered) =>
        /\ Len(wrote) = 1
        /\ wrote[1].data = WireFormat(last.op, last.args)
        /\ HasPair(wrote[1].data, "|", "@") <=> Hundredths(last.args.sample_rate) # 100
        /\ HasPair(wrote[1].data, "|", "#") <=> last.args.tags # <<>>

(* a sampled gauge with two tags out of alphabetical order *)
C9_Witness ==
    /\ last.op = "gauge" /\ ~Buffered /\ Len(wrote) = 1
    /\ wrote[1].data = <<"m", ":", "5", "|", "g", "|", "@", "0", ".", "5",
                         "|", "#", "b", ",", "a">>

(* C10: decrement(m, v) does what increment(m, -v) does, type c with the    *)
(* value negated; increment(m, 5) sends m:5|c and decrement(m, 5) m:-5|c.   *)
C10_Step ==
    LET a == last'.args
        plain == a.metric = <<"m">> /\ a.value = I(5) /\ a.tags = <<>>
                 /\ a.sample_rate = I(1) /\ ~Buffered
    IN  /\ (last'.op = "decrement") =>
              \E io \in IO :
                  LET r == increment(Self, a.metric, Neg(a.value), a.tags,
                                     a.sample_rate, a.u, io)
                  IN  wrote' = r.wrote /\ buffer' = r.buffer /\ send' = r.send
        /\ (last'.op = "decrement" /\ plain) =>
              wrote'[1].data = <<"m", ":", "-", "5", "|", "c">>
        /\ (last'.op = "increment" /\ plain) =>
              wrote'[1].data = <<"m", ":", "5", "|", "c">>

(* C10: decrement(m, v) sends the packet of increment(m, -v): every step
   is a C10_Step. *)
C10_DecrementNegates == [][C10_Step]_vars

(* decrement(m, 5) in the immediate strategy *)
C10_Witness ==
    /\ last.op = "decrement" /\ last.args.value = I(5)
    /\ ~Buffered /\ Len(wrote) = 1
    /\ wrote[1].data = <<"m", ":", "-", "5", "|", "c">>

(* the segments of data between the occurrences of sep *)
RECURSIVE SplitFrom(_, _, _, _)
SplitFrom(data, sep, i, segment) ==
    IF i > Len(data) THEN <<segment>>
    ELSE IF data[i] = sep THEN <<segment>> \o SplitFrom(data, sep, i + 1, <<>>)
    ELSE SplitFrom(data, sep, i + 1, Append(segment, data[i]))

Split(data, sep) == SplitFrom(data, sep, 1, <<>>)

(* events short enough to be taken apart character by character *)
ShortEvent == last.op = "event" /\ Len(last.args.title) < 100

FieldOrder == <<"d", "h", "k", "p", "s", "t", "#">>

FieldGiven(e, k) ==
    CASE k = "d" -> e.date_happened # 0
      [] k = "h" -> e.hostname # <<>>
      [] k = "k" -> e.aggregation_key # <<>>
      [] k = "p" -> e.priority # <<>>
      [] k = "s" -> e.source_type_name # <<>>
      [] k = "t" -> e.alert_type # <<>>
      [] k = "#" -> e.tags # <<>>

FieldText(e, k) ==
    CASE k = "d" -> <<"d", ":">> \o IntStr(e.date_happened)
      [] k = "h" -> <<"h", ":">> \o e.hostname
      [] k = "k" -> <<"k", ":">> \o e.aggregation_key
      [] k = "p" -> <<"p", ":">> \o e.priority
      [] k = "s" -> <<"s", ":">> \o e.source_type_name
      [] k = "t" -> <<"t", ":">> \o e.alert_type
      [] k = "#" -> <<"#">> \o CommaJoined(e.tags)

(* C11: after the title and the text, the |-separated fields of an event    *)
(* are those of the optional arguments given, in the order d, h, k, p, s,   *)
(* t, #, and an argument not given adds nothing.                            *)
C11_EventFieldOrder ==
    (ShortEvent /\ Len(wrote) = 1) =>
        LET e == last.args
            segs == Split(wrote[1].data, "|")
            given == SelectSeq(FieldOrder, LAMBDA k : FieldGiven(e, k))
        IN  /\ Len(segs) = 2 + Len(given)
            /\ \A i \in DOMAIN given : segs[2 + i] = FieldText(e, given[i])

(* an event with all seven optional arguments *)
C11_Witness ==
    /\ ShortEvent /\ Len(wrote) = 1
    /\ \A i \in DOMAIN FieldOrder : FieldGiven(last.args, FieldOrder[i])
    /\ Len(Split(wrote[1].data, "|")) = 9

RECURSIVE Escaped(_)
Escaped(string) ==
    IF string = <<>> THEN <<>>
    ELSE (IF Head(string) = NL THEN <<BS, "n">> ELSE <<Head(string)>>)
         \o Escaped(Tail(string))

(* the header of the event e: lengths of the escaped title and text, then  *)
(* the escaped title and text                                               *)
EscapedHead(e) ==
    LET title == Escaped(e.title)
        text == Escaped(e.text)
    IN  <<"_", "e", "{">> \o NatStr(Len(title)) \o <<",">>
        \o NatStr(Len(text)) \o <<"}", ":">> \o title \o <<"|">> \o text

StartsWith(data, head) ==
    Len(data) >= Len(head) /\ SubSeq(data, 1, Len(head)) = head

TitleExample ==
    Ev(<<"T", "i", "t", "l", "e">>,
       <<"l", "i", "n", "e", "1", NL, "l", "i", "n", "e", "2">>, NoFields)

(* _e{5,<textLen>}:Title|line1\nline2 *)
TitleExampleData(textLen) ==
    <<"_", "e", "{", "5", ",">> \o textLen
    \o <<"}", ":", "T", "i", "t", "l", "e", "|",
         "l", "i", "n", "e", "1", BS, "n", "l", "i", "n", "e", "2">>

(* C12: the event starts with _e{a,b}:title|text where title and text have  *)
(* every newline replaced by backslash n and a, b are the lengths of the    *)
(* replaced strings; event("Title", "line1<newline>line2") is               *)
(* _e{5,12}:Title|line1\nline2, the replaced text being 12 characters.      *)
C12_EventEscaping ==
    (ShortEvent /\ Len(wrote) = 1) =>
        /\ ~HasNL(wrote[1].data)
        /\ StartsWith(wrote[1].data, EscapedHead(last.args))
        /\ (last.args = TitleExample) =>
               wrote[1].data = TitleExampleData(<<"1", "2">>)

(* C12 as stated: the same, with event("Title", "line1<newline>line2")     *)
(* being _e{5,11}:Title|line1\nline2.                                       *)
C12_AsStated ==
    (ShortEvent /\ Len(wrote) = 1) =>
        /\ ~HasNL(wrote[1].data)
        /\ StartsWith(wrote[1].data, EscapedHead(last.args))
        /\ (last.args = TitleExample) =>
               wrote[1].data = TitleExampleData(<<"1", "1">>)

(* event("Title", "line1<newline>line2") written *)
C12_Witness ==
    /\ ShortEvent /\ Len(wrote) = 1
    /\ last.args = TitleExample
    /\ StartsWith(wrote[1].data, <<"_", "e", "{", "5", ",", "1", "2", "}">>)

(* the packet of the call was handed to the strategy in force: written, or *)
(* the last packet of the buffer                                            *)
TimingHanded ==
    \/ Len(wrote) = 1
    \/ buffer # <<>> /\ buffer[Len(buffer)] = WireFormat("timing", last.args)

(* C13: a call of a function wrapped by timed() reports the timing on every *)
(* exit path, as with try/finally: also when the function raises, in which  *)
(* case the exception still reaches the caller.                             *)
C13_TimedOnEveryExit ==
    last.op = "timed" =>
        /\ raised = last.args.func_exc
        /\ ~DroppedBySampling(last.args) => TimingHanded

(* Parsing <name>:<value>|<type>: the name ends at the first ":", the      *)
(* value at the first "|" after it.                                         *)
FirstIndex(data, c) ==
    IF \A i \in DOMAIN data : data[i] # c THEN 0
    ELSE CHOOSE k \in DOMAIN data : data[k] = c /\ \A j \in 1 .. (k - 1) : data[j] # c

ParsePacket(data) ==
    LET i == FirstIndex(data, ":")
        rest == SubSeq(data, i + 1, Len(data))
        j == FirstIndex(rest, "|")
    IN  [name |-> SubSeq(data, 1, i - 1),
         value |-> SubSeq(rest, 1, j - 1),
         type |-> SubSeq(rest, j + 1, Len(rest))]

(* a number as sign, digits before the point, digits after it *)
Decimal(neg, int, frac) == [neg |-> neg, int |-> int, frac |-> StripZeros(frac)]

ParseDecimal(text) ==
    LET neg == text # <<>> /\ text[1] = "-"
        abs == IF neg THEN Tail(text) ELSE text
        dot == FirstIndex(abs, ".")
    IN  IF dot = 0 THEN Decimal(neg, abs, <<>>)
        ELSE Decimal(neg, SubSeq(abs, 1, dot - 1), SubSeq(abs, dot + 1, Len(abs)))

NumberOf(x) ==
    LET a == IF x.v < 0 THEN 0 - x.v ELSE x.v
    IN  CASE x.t = "int" -> Decimal(x.v < 0, NatStr(a), <<>>)
          [] x.t = "float" ->
                Decimal(x.v < 0, NatStr(a \div 100),
                        <<Digits[((a % 100) \div 10) + 1], Digits[(a % 10) + 1]>>)
          [] x.t = "long" -> Decimal(x.v < 0, <<"0">>, x.d)

(* a metric call at sample rate 1 without tags, written on its own *)
PlainMetricWritten ==
    /\ last.op \in MetricOps
    /\ Hundredths(last.args.sample_rate) = 100
    /\ last.args.tags = <<>>
    /\ ~Buffered /\ Len(wrote) = 1

RoundTrip ==
    LET p == ParsePacket(wrote[1].data)
    IN  /\ p.name = last.args.metric
        /\ p.type = WireType(last.op)
        /\ ParseDecimal(p.value) = NumberOf(WireValue(last.op, last.args))

PlainName(name) == \A i \in DOMAIN name : name[i] \notin {":", "|", NL}

ExactStr(x) == x.t = "long" => Len(x.d) <= StrPrecision

(* C14: at sample rate 1 and without tags, for every metric type, every     *)
(* name without ":", "|" and newline, and every integer or float of at most *)
(* 12 significant digits, parsing the packet as <name>:<value>|<type>       *)
(* recovers the name, the type and the value.                               *)
C14_RoundTrip ==
    (PlainMetricWritten /\ PlainName(last.args.metric) /\ ExactStr(last.args.value))
        => RoundTrip

(* C14 as stated: the same for every name and every value. *)
C14_AsStated == PlainMetricWritten => RoundTrip

(* a negated float under a dotted name has made the round trip *)
C14_Witness ==
    /\ PlainMetricWritten /\ RoundTrip
    /\ last.op = "decrement" /\ last.args.value = F(150)
    /\ last.args.metric = <<"a", ".", "b">>

(* the non-empty packets of a written payload *)
PacketsOf(data) == SelectSeq(Split(data, NL), LAMBDA x : x # <<>>)

Range(f) == {f[i] : i \in DOMAIN f}

(* the packets of all the writes of a recorded call *)
RECURSIVE PacketsOfAll(_)
PacketsOfAll(writes) ==
    IF writes = <<>> THEN <<>>
    ELSE PacketsOf(writes[1].data) \o PacketsOfAll(Tail(writes))

(* the packets written by the latest call of the record *)
LatestPackets ==
    IF hist.log = <<>> THEN <<>> ELSE PacketsOfAll(hist.log[Len(hist.log)].wrote)

(* no packet found pending by an earlier open_buffer is in a write of the   *)
(* latest call: true after every call, no such packet is in any later write *)
DiscardedNeverSent ==
    LET latest == Range(LatestPackets)
    IN  latest # {} =>
            \A i \in DOMAIN hist.log :
                (hist.log[i].op = "open_buffer" /\ hist.log[i].before # <<>>) =>
                    latest \cap Range(hist.log[i].before) = {}

C15_Step ==
    (last'.op = "open_buffer" /\ Buffered /\ buffer # <<>>) =>
        /\ buffer' = <<>>
        /\ max_buffer_size' = last'.args.max_buffer_size
        /\ Buffered'
        /\ wrote' = <<>>

(* C15: open_buffer called in the buffered strategy with packets pending    *)
(* empties the buffer, sets the new maximum, stays buffered and writes      *)
(* nothing; the packets that were pending are in no later write.            *)
C15_ReopenDiscards == [][C15_Step /\ DiscardedNeverSent']_vars

(* packets were discarded by an open_buffer, and a later call has written *)
C15_Witness ==
    \E i \in DOMAIN hist.log :
        /\ hist.log[i].op = "open_buffer" /\ hist.log[i].before # <<>>
        /\ i < Len(hist.log)
        /\ last.op = "close_buffer" /\ Len(wrote) = 1 /\ wrote[1].data # <<>>

(* the step ran _flush_buffer to its write *)
Flushed ==
    \/ last'.op \in MetricOps /\ Buffered /\ wrote' # <<>>
    \/ last'.op = "close_buffer" /\ has_buffer

(* no packet written by the latest call is in a write of an earlier call,   *)
(* nor twice in those of the latest: true after every call, no packet is in *)
(* two batches                                                              *)
NoPacketTwice ==
    LET packets == LatestPackets
        latest == Range(packets)
    IN  packets # <<>> =>
            /\ Cardinality(latest) = Len(packets)
            /\ \A i \in 1 .. (Len(hist.log) - 1) :
                  hist.log[i].wrote # <<>> =>
                      latest \cap Range(PacketsOfAll(hist.log[i].wrote)) = {}

C18_Step == Flushed => (Len(wrote') = 1 /\ buffer' = <<>>)

(* C18: every flush leaves the buffer empty, whether its write succeeds or  *)
(* fails, so a failed batch is not in the buffer at the next append; and no *)
(* packet is written in two batches.                                        *)
C18_FlushEmpties == [][C18_Step /\ NoPacketTwice']_vars

(* a batch of two was written and failed, and the next packet is alone in   *)
(* the buffer                                                               *)
C18_Witness ==
    /\ last.op \in MetricOps /\ Buffered /\ Len(buffer) = 1
    /\ \E i \in DOMAIN hist.log :
          /\ Len(hist.log[i].wrote) = 1
          /\ ~hist.log[i].wrote[1].ok
          /\ Len(PacketsOf(hist.log[i].wrote[1].data)) = 2

(* the packets written so far, in write order, and the metrics called so    *)
(* far, encoded, in call order                                              *)
RECURSIVE WrittenPackets(_)
WrittenPackets(log) ==
    IF log = <<>> THEN <<>>
    ELSE WrittenPackets(SubSeq(log, 1, Len(log) - 1))
         \o PacketsOfAll(log[Len(log)].wrote)

RECURSIVE CalledPackets(_)
CalledPackets(log) ==
    IF log = <<>> THEN <<>>
    ELSE CalledPackets(SubSeq(log, 1, Len(log) - 1))
         \o (IF log[Len(log)].op \in MetricOps
             THEN <<encode(WireFormat(log[Len(log)].op, log[Len(log)].args))>>
             ELSE <<>>)

AllWritesOk ==
    \A i \in DOMAIN hist.log :
        \A k \in DOMAIN hist.log[i].wrote : hist.log[i].wrote[k].ok

NeverReopenedPending ==
    \A i \in DOMAIN hist.log :
        hist.log[i].op = "open_buffer" => hist.log[i].before = <<>>

(* C19: when every write succeeded and open_buffer was never called with    *)
(* packets pending, then once a close_buffer has returned, the non-empty    *)
(* packets of the written payloads, in write order, are the encoded metrics *)
(* in call order, each once.                                                *)
C19_NoLossNoReorder ==
    (/\ hist.on
     /\ last.op = "close_buffer" /\ raised = NoError
     /\ AllWritesOk /\ NeverReopenedPending)
        => WrittenPackets(hist.log) = CalledPackets(hist.log)

(* three metrics, the first two written as one batch and the third by the   *)
(* close_buffer                                                             *)
C19_Witness ==
    /\ hist.on /\ last.op = "close_buffer" /\ raised = NoError
    /\ AllWritesOk /\ NeverReopenedPending
    /\ Len(CalledPackets(hist.log)) = 3
    /\ WrittenPackets(hist.log) = CalledPackets(hist.log)
    /\ \E i \in DOMAIN hist.log :
          hist.log[i].op \in MetricOps /\ Len(PacketsOfAll(hist.log[i].wrote)) = 2
    /\ Len(wrote) = 1 /\ Len(PacketsOf(wrote[1].data)) = 1

(* close_buffer called in the buffered strategy *)
ClosesBuffered == last'.op = "close_buffer" /\ Buffered /\ has_buffer

C16_Step ==
    ClosesBuffered =>
        /\ Len(wrote') = 1
        /\ wrote'[1].data = encode(join(<<NL>>, buffer))
        /\ wrote'[1].via = "_send_to_server"

(* C16: within close_buffer the strategy is switched back to immediate      *)
(* before the flush: when the remaining packets are written, as one         *)
(* payload, the strategy in force is already the immediate one.             *)
C16_SwitchThenFlush == [][C16_Step]_vars

(* C16 as stated: the flush happens before the switch; when the remaining   *)
(* packets are written the strategy in force is still the buffered one.     *)
C16_AsStated ==
    [][ClosesBuffered =>
          /\ Len(wrote') = 1
          /\ wrote'[1].data = encode(join(<<NL>>, buffer))
          /\ wrote'[1].via = "_send_to_buffer"]_vars

(* two pending packets written by close_buffer *)
C16_Witness ==
    /\ last.op = "close_buffer" /\ Len(wrote) = 1
    /\ Len(PacketsOf(wrote[1].data)) = 2
    /\ wrote[1].via = "_send_to_server"

C20_Step ==
    (last'.op \in {"close_buffer", "__exit__"} /\ has_buffer /\ buffer = <<>>) =>
        /\ Len(wrote') = 1
        /\ wrote'[1].data = <<>>

(* C20: close_buffer, and the end of a scope, with nothing pending (after   *)
(* open_buffer, after a flush at the maximum size, after another            *)
(* close_buffer) still makes exactly one write, of the empty string.        *)
C20_EmptyFlushWrites == [][C20_Step]_vars

(* a scope ended with nothing pending: one write, of the empty string *)
C20_Witness ==
    /\ last.op = "__exit__" /\ last.args.body_exc = NoError
    /\ Len(wrote) = 1 /\ wrote[1].data = <<>> /\ wrote[1].ok

(* Two callers: the writes of the record, and the three bad states *)
Writes == {i \in DOMAIN hist.log : hist.log[i].op = "write"}

WrittenIn(packet, i) == packet \in Range(PacketsOf(hist.log[i].data))

(* appended, no longer in the buffer, and in no write *)
Lost(i) ==
    /\ hist.log[i].packet \notin Range(buffer)
    /\ \A w \in Writes : ~WrittenIn(hist.log[i].packet, w)

PacketLost == \E i \in Appended : Lost(i)
PastMax == Len(buffer) > max_buffer_size
BatchTwice ==
    \E i, j \in Writes :
        i < j /\ \E a \in Appended : WrittenIn(hist.log[a].packet, i)
                                     /\ WrittenIn(hist.log[a].packet, j)

(* C17: two callers of one client in the buffered strategy reach a bad      *)
(* state (a packet lost, the buffer longer than the maximum, a batch        *)
(* written twice), and only by interleaving: not as long as one caller at   *)
(* a time has been inside a call.                                           *)
C17_BadOnlyInterleaved ==
    (hist.on /\ (PacketLost \/ PastMax \/ BatchTwice)) => hist.overlap

(* a packet appended by one caller right after the other's write, gone with *)
(* the other's reset and in no write                                        *)
C17_Witness ==
    /\ pc = AllIdle
    /\ \E i \in Appended :
          /\ Lost(i)
          /\ i > 1 /\ hist.log[i - 1].op = "write"
          /\ hist.log[i - 1].by # hist.log[i].by

(* the two other bad states of C17 *)
C17_PastMaxReached == hist.on /\ hist.overlap /\ PastMax
C17_BatchTwiceReached == hist.on /\ hist.overlap /\ BatchTwice

=============================================================================
